---- MODULE Spec2Model ----
(***************************************************************************)
(* The token-balance example                                               *)
(* spl-tokens/check-token-account-balance/token-balance-rust/src/main.rs.  *)
(*                                                                         *)
(* main parses an address, builds an RPC client, asks the ledger node for  *)
(* the token balance of an account and prints ui_amount_string.  Both      *)
(* fallible steps end in .unwrap().  One run of main is one "call"; several*)
(* runs may be alive at once, each with its own client, all talking to the *)
(* same ledger node.                                                       *)
(*                                                                         *)
(* Text is a sequence of one-character strings, so that parsing and        *)
(* formatting are computed character by character.                         *)
(***************************************************************************)
EXTENDS Integers, Sequences, FiniteSets

(***************************************************************************)
(* Bounds of the model.                                                    *)
(***************************************************************************)
NumCalls == 2

Calls == 1..NumCalls

(***************************************************************************)
(* Pubkey::from_str (line 6): base-58 decoding to a 32-byte identifier.    *)
(***************************************************************************)
MAX_BASE58_LEN == 44

PUBKEY_BYTES == 32

Base58Alphabet ==
  << "1","2","3","4","5","6","7","8","9",
     "A","B","C","D","E","F","G","H","J","K","L","M","N","P","Q","R","S","T",
     "U","V","W","X","Y","Z",
     "a","b","c","d","e","f","g","h","i","j","k","m","n","o","p","q","r","s",
     "t","u","v","w","x","y","z" >>

IsBase58Char(ch) == \E i \in 1..Len(Base58Alphabet) : Base58Alphabet[i] = ch

Base58Digit(ch) == (CHOOSE i \in 1..Len(Base58Alphabet) : Base58Alphabet[i] = ch) - 1

\* The carry left after the last byte is appended low byte first.
RECURSIVE PushCarry(_, _)
PushCarry(bytes, val) ==
  IF val = 0 THEN bytes
  ELSE PushCarry(Append(bytes, val % 256), val \div 256)

\* bytes := bytes * 58 + val, bytes little-endian, from position i on.
RECURSIVE MulAdd(_, _, _)
MulAdd(bytes, i, val) ==
  IF i > Len(bytes) THEN PushCarry(bytes, val)
  ELSE LET v == bytes[i] * 58 + val
       IN  MulAdd([bytes EXCEPT ![i] = v % 256], i + 1, v \div 256)

RECURSIVE DecodeDigits(_, _, _)
DecodeDigits(s, i, bytes) ==
  IF i > Len(s) THEN bytes
  ELSE DecodeDigits(s, i + 1, MulAdd(bytes, 1, Base58Digit(s[i])))

RECURSIVE LeadingOnes(_, _)
LeadingOnes(s, i) ==
  IF i > Len(s) \/ s[i] # "1" THEN 0 ELSE 1 + LeadingOnes(s, i + 1)

Reverse(q) == [i \in 1..Len(q) |-> q[Len(q) + 1 - i]]

\* bs58::decode(s).into_vec(): every leading "1" is one leading zero byte.
Base58Decode(s) ==
  IF \E i \in 1..Len(s) : ~IsBase58Char(s[i])
  THEN [ok |-> FALSE, err |-> "Invalid"]
  ELSE LET le == DecodeDigits(s, 1, << >>)
       IN  [ok |-> TRUE,
            val |-> [i \in 1..LeadingOnes(s, 1) |-> 0] \o Reverse(le)]

\* from_str without the check of the decoded length
FromStr_NoSizeCheck(s) ==
  IF Len(s) > MAX_BASE58_LEN THEN [ok |-> FALSE, err |-> "WrongSize"]
  ELSE LET d == Base58Decode(s)
       IN  IF ~d.ok THEN [ok |-> FALSE, err |-> "Invalid"]
           ELSE [ok |-> TRUE, val |-> d.val]

FromStr(s) ==
  IF Len(s) > MAX_BASE58_LEN THEN [ok |-> FALSE, err |-> "WrongSize"]
  ELSE LET d == Base58Decode(s)
       IN  IF ~d.ok THEN [ok |-> FALSE, err |-> "Invalid"]
           ELSE IF Len(d.val) # PUBKEY_BYTES
                THEN [ok |-> FALSE, err |-> "WrongSize"]
                ELSE [ok |-> TRUE, val |-> d.val]

(***************************************************************************)
(* The address constant of line 4 and the addresses a reader puts in its   *)
(* place.                                                                  *)
(***************************************************************************)
TOKEN_ADDRESS == <<"T","o","k","e","n"," ","a","d","d","r","e","s","s">>

\* base-58 throughout, but only 9 bytes
ShortAddress == <<"T","o","k","e","n","a","d","d","r","e","s","s">>

\* 45 characters
LongAddress == [i \in 1..(MAX_BASE58_LEN + 1) |-> "1"]

\* repeated byte 7
AddressA ==
  <<"U","S","5","1","7","G","5","9","6","5","a","y","d","k","Z","4","6","H",
    "S","3","8","Q","L","i","7","U","Q","i","S","o","j","u","r","f","b","Q",
    "f","K","C","E","L","F","x">>

\* two zero bytes, then repeated byte 200
AddressB ==
  <<"1","1","h","E","S","e","A","K","v","Z","i","M","S","K","a","E","2","Y",
    "i","L","j","z","P","P","u","4","s","K","T","t","s","T","3","k","Q","w",
    "9","P","Q","j","t","9","D">>

Addresses ==
  {TOKEN_ADDRESS, ShortAddress, LongAddress, AddressA, AddressB}

\* from_str of every address of the model, computed once.
ParseTable == [a \in Addresses |-> FromStr(a)]

ValidAddresses == {a \in Addresses : ParseTable[a].ok}

Pubkeys == {ParseTable[a].val : a \in ValidAddresses}

\* Pubkey's Display, the form a request carries: bs58 encoding.
\* digits := digits * 256 + val, digits little-endian, from position i on.
RECURSIVE PushDigits(_, _)
PushDigits(digits, val) ==
  IF val = 0 THEN digits
  ELSE PushDigits(Append(digits, val % 58), val \div 58)

RECURSIVE MulAdd58(_, _, _)
MulAdd58(digits, i, val) ==
  IF i > Len(digits) THEN PushDigits(digits, val)
  ELSE LET v == digits[i] * 256 + val
       IN  MulAdd58([digits EXCEPT ![i] = v % 58], i + 1, v \div 58)

RECURSIVE EncodeBytes(_, _, _)
EncodeBytes(bytes, i, digits) ==
  IF i > Len(bytes) THEN digits
  ELSE EncodeBytes(bytes, i + 1, MulAdd58(digits, 1, bytes[i]))

RECURSIVE LeadingZeros(_, _)
LeadingZeros(bytes, i) ==
  IF i > Len(bytes) \/ bytes[i] # 0 THEN 0 ELSE 1 + LeadingZeros(bytes, i + 1)

Base58Encode(bytes) ==
  LET le == EncodeBytes(bytes, 1, << >>)
  IN  [i \in 1..LeadingZeros(bytes, 1) |-> "1"]
      \o [i \in 1..Len(le) |-> Base58Alphabet[le[Len(le) + 1 - i] + 1]]

DisplayTable == [p \in Pubkeys |-> Base58Encode(p)]

(***************************************************************************)
(* The ledger node.  It answers getTokenAccountBalance with amount (an     *)
(* integer as text), decimals and uiAmountString, the amount scaled by     *)
(* decimals and trimmed.                                                   *)
(***************************************************************************)
Digits == <<"0","1","2","3","4","5","6","7","8","9">>

RECURSIVE AmountToString(_)
AmountToString(n) ==
  IF n < 10 THEN <<Digits[n + 1]>>
  ELSE Append(AmountToString(n \div 10), Digits[(n % 10) + 1])

\* "{:0>width$}"
PadLeft(s, width) ==
  IF Len(s) >= width THEN s ELSE [i \in 1..(width - Len(s)) |-> "0"] \o s

RealNumberString(amount, decimals) ==
  IF decimals > 0
  THEN LET s == PadLeft(AmountToString(amount), decimals + 1)
           k == Len(s) - decimals
       IN  SubSeq(s, 1, k) \o <<".">> \o SubSeq(s, k + 1, Len(s))
  ELSE AmountToString(amount)

RECURSIVE TrimEnd(_, _)
TrimEnd(s, ch) ==
  IF Len(s) > 0 /\ s[Len(s)] = ch THEN TrimEnd(SubSeq(s, 1, Len(s) - 1), ch)
  ELSE s

RealNumberStringTrimmed(amount, decimals) ==
  LET s == RealNumberString(amount, decimals)
  IN  IF decimals > 0 THEN TrimEnd(TrimEnd(s, "0"), ".") ELSE s

NoAccount == [kind |-> "none", amount |-> 0, decimals |-> 0]

OtherAccount == [kind |-> "other", amount |-> 0, decimals |-> 0]

TokenAccount(amount, decimals) ==
  [kind |-> "token", amount |-> amount, decimals |-> decimals]

KeyA == ParseTable[AddressA].val

KeyB == ParseTable[AddressB].val

\* Snapshots of the ledger: what the node holds during one behaviour.
Ledgers ==
  { [p \in Pubkeys |->
       IF p = KeyA THEN TokenAccount(1500000, 6) ELSE TokenAccount(1, 9)],
    [p \in Pubkeys |->
       IF p = KeyA THEN TokenAccount(0, 0) ELSE TokenAccount(100, 2)],
    [p \in Pubkeys |->
       IF p = KeyA THEN NoAccount ELSE OtherAccount] }

NoValue == [amount |-> << >>, decimals |-> 0, uiAmountString |-> << >>]

ResultBody(acct) ==
  [kind |-> "result",
   value |-> [amount |-> AmountToString(acct.amount),
              decimals |-> acct.decimals,
              uiAmountString |->
                 RealNumberStringTrimmed(acct.amount, acct.decimals)],
   message |-> ""]

ErrorBody(msg) == [kind |-> "error", value |-> NoValue, message |-> msg]

GarbageBody == [kind |-> "garbage", value |-> NoValue, message |-> ""]

\* The node's answer to a request naming the account param.
Answer(l, param) ==
  LET k == IF param \in Addresses THEN ParseTable[param] ELSE FromStr(param)
  IN  IF ~k.ok \/ k.val \notin DOMAIN l
      THEN ErrorBody("Invalid param: Invalid")
      ELSE IF l[k.val].kind = "none"
           THEN ErrorBody("Invalid param: could not find account")
           ELSE IF l[k.val].kind = "other"
                THEN ErrorBody("Invalid param: not a Token account")
                ELSE ResultBody(l[k.val])

(***************************************************************************)
(* The state of the runs of main.                                          *)
(***************************************************************************)
VARIABLES
  address,                   \* the text of line 4 compiled into the run
  pc,                        \* where the run is
  associated_token_account,  \* line 6; << >> while unset
  connection,                \* line 7; "" while unset
  account_data,              \* lines 8-10; << >> while unset
  panic,                     \* the error an unwrap panicked with
  stdout,                    \* lines printed by the run
  sent,                      \* requests the run's client has issued
  net,                       \* requests and responses in flight
  ledger                     \* what the node holds

vars ==
  << address, pc, associated_token_account, connection, account_data, panic,
     stdout, sent, net, ledger >>

ENDPOINT == "https://api.mainnet-beta.solana.com"

NoPanic == [kind |-> "none", message |-> ""]

Request(c, key) ==
  [conn |-> c, type |-> "request", method |-> "getTokenAccountBalance",
   param |-> DisplayTable[key], body |-> GarbageBody]

Response(c, body) ==
  [conn |-> c, type |-> "response", method |-> "getTokenAccountBalance",
   param |-> << >>, body |-> body]

\* a client that reports the node's errors as malformed responses
ClientResult_ErrorsAsMalformed(body) ==
  IF body.kind = "result"
  THEN [ok |-> TRUE,
        val |-> [amount |-> body.value.amount,
                 decimals |-> body.value.decimals,
                 ui_amount_string |-> body.value.uiAmountString],
        err |-> NoPanic]
  ELSE [ok |-> FALSE,
        val |-> [amount |-> << >>, decimals |-> 0, ui_amount_string |-> << >>],
        err |-> [kind |-> "MalformedResponse", message |-> ""]]

\* What the client makes of a response: Result<UiTokenAmount, ClientError>.
ClientResult(body) ==
  IF body.kind = "result"
  THEN [ok |-> TRUE,
        val |-> [amount |-> body.value.amount,
                 decimals |-> body.value.decimals,
                 ui_amount_string |-> body.value.uiAmountString],
        err |-> NoPanic]
  ELSE [ok |-> FALSE,
        val |-> [amount |-> << >>, decimals |-> 0, ui_amount_string |-> << >>],
        err |-> IF body.kind = "error"
                THEN [kind |-> "RpcResponseError", message |-> body.message]
                ELSE [kind |-> "MalformedResponse", message |-> ""]]

Init ==
  /\ address \in [Calls -> Addresses]
  /\ pc = [c \in Calls |-> "parse"]
  /\ associated_token_account = [c \in Calls |-> << >>]
  /\ connection = [c \in Calls |-> ""]
  /\ account_data = [c \in Calls |-> << >>]
  /\ panic = [c \in Calls |-> NoPanic]
  /\ stdout = [c \in Calls |-> << >>]
  /\ sent = [c \in Calls |-> 0]
  /\ net = {}
  /\ ledger \in Ledgers

\* line 6 with unwrap_or_default() in place of unwrap()
Parse_OrDefault(c) ==
  /\ pc[c] = "parse"
  /\ LET r == ParseTable[address[c]]
     IN  associated_token_account' =
           [associated_token_account EXCEPT ![c] =
              IF r.ok THEN r.val ELSE [i \in 1..PUBKEY_BYTES |-> 0]]
  /\ pc' = [pc EXCEPT ![c] = "connect"]
  /\ UNCHANGED << address, connection, account_data, panic, stdout, sent, net,
                  ledger >>

\* Line 6: Pubkey::from_str(TOKEN_ADDRESS).unwrap()
Parse(c) ==
  /\ pc[c] = "parse"
  /\ LET r == ParseTable[address[c]]
     IN  IF r.ok
         THEN /\ associated_token_account' =
                   [associated_token_account EXCEPT ![c] = r.val]
              /\ pc' = [pc EXCEPT ![c] = "connect"]
              /\ panic' = panic
         ELSE /\ panic' = [panic EXCEPT ![c] =
                   [kind |-> "ParsePubkeyError", message |-> r.err]]
              /\ pc' = [pc EXCEPT ![c] = "panicked"]
              /\ associated_token_account' = associated_token_account
  /\ UNCHANGED << address, connection, account_data, stdout, sent, net, ledger >>

\* Line 7: RpcClient::new(url); nothing is sent yet.
Connect(c) ==
  /\ pc[c] = "connect"
  /\ connection' = [connection EXCEPT ![c] = ENDPOINT]
  /\ pc' = [pc EXCEPT ![c] = "call"]
  /\ UNCHANGED << address, associated_token_account, account_data, panic,
                  stdout, sent, net, ledger >>

\* Lines 8-9: connection.get_token_account_balance(&associated_token_address).
\* The argument names associated_token_address; line 6 binds
\* associated_token_account and no line binds associated_token_address, so
\* the program does not determine the key the request carries.
Call(c) ==
  /\ pc[c] = "call"
  /\ \E associated_token_address \in Pubkeys :
        net' = net \cup {Request(c, associated_token_address)}
  /\ sent' = [sent EXCEPT ![c] = sent[c] + 1]
  /\ pc' = [pc EXCEPT ![c] = "await"]
  /\ UNCHANGED << address, associated_token_account, connection, account_data,
                  panic, stdout, ledger >>

\* The node answers a request on the connection it came in on.
Serve(c) ==
  \E m \in net :
    /\ m.conn = c
    /\ m.type = "request"
    /\ net' = (net \ {m}) \cup {Response(c, Answer(ledger, m.param))}
    /\ UNCHANGED << address, pc, associated_token_account, connection,
                    account_data, panic, stdout, sent, ledger >>

\* An endpoint that does not speak the expected schema.
ServeMalformed(c) ==
  \E m \in net :
    /\ m.conn = c
    /\ m.type = "request"
    /\ net' = (net \ {m}) \cup {Response(c, GarbageBody)}
    /\ UNCHANGED << address, pc, associated_token_account, connection,
                    account_data, panic, stdout, sent, ledger >>

\* lines 8-10 with the error noted and an empty balance carried on
Return_Swallow(c) ==
  /\ pc[c] = "await"
  /\ \E m \in net :
       /\ m.conn = c
       /\ m.type = "response"
       /\ net' = net \ {m}
       /\ LET r == ClientResult(m.body)
          IN  /\ account_data' = [account_data EXCEPT ![c] = <<r.val>>]
              /\ pc' = [pc EXCEPT ![c] = "println"]
              /\ panic' = [panic EXCEPT ![c] = r.err]
  /\ UNCHANGED << address, associated_token_account, connection, stdout, sent,
                  ledger >>

\* Lines 8-10: the call returns Ok and unwrap yields the balance, or the
\* call returns Err and unwrap panics.
Return(c) ==
  /\ pc[c] = "await"
  /\ \E m \in net :
       /\ m.conn = c
       /\ m.type = "response"
       /\ net' = net \ {m}
       /\ LET r == ClientResult(m.body)
          IN  IF r.ok
              THEN /\ account_data' = [account_data EXCEPT ![c] = <<r.val>>]
                   /\ pc' = [pc EXCEPT ![c] = "println"]
                   /\ panic' = panic
              ELSE /\ panic' = [panic EXCEPT ![c] = r.err]
                   /\ pc' = [pc EXCEPT ![c] = "panicked"]
                   /\ account_data' = account_data
  /\ UNCHANGED << address, associated_token_account, connection, stdout, sent,
                  ledger >>

\* a client that sends the request again when no answer arrives
TransportFailure_Retry(c) ==
  /\ pc[c] = "await"
  /\ net' = {m \in net : m.conn # c}
  /\ IF sent[c] < 2
     THEN /\ pc' = [pc EXCEPT ![c] = "call"]
          /\ panic' = panic
     ELSE /\ pc' = [pc EXCEPT ![c] = "panicked"]
          /\ panic' = [panic EXCEPT ![c] =
                [kind |-> "Transport", message |-> ""]]
  /\ UNCHANGED << address, associated_token_account, connection, account_data,
                  stdout, sent, ledger >>

\* a client without a timeout: waiting does not end by itself
TransportFailure_Hang(c) ==
  /\ pc[c] = "await"
  /\ UNCHANGED vars

\* Lines 8-10: no answer arrives (refused, unreachable, timed out); the
\* call returns Err and unwrap panics.  The connection is dropped.
TransportFailure(c) ==
  /\ pc[c] = "await"
  /\ net' = {m \in net : m.conn # c}
  /\ panic' = [panic EXCEPT ![c] = [kind |-> "Transport", message |-> ""]]
  /\ pc' = [pc EXCEPT ![c] = "panicked"]
  /\ UNCHANGED << address, associated_token_account, connection, account_data,
                  stdout, sent, ledger >>

\* lines 11-14 printing the raw amount
Println_RawAmount(c) ==
  /\ pc[c] = "println"
  /\ stdout' = [stdout EXCEPT ![c] =
        Append(stdout[c],
               [fmt |-> "Token Balance (using Rust): {}",
                arg |-> account_data[c][1].amount])]
  /\ pc' = [pc EXCEPT ![c] = "returned"]
  /\ UNCHANGED << address, associated_token_account, connection, account_data,
                  panic, sent, net, ledger >>

\* Lines 11-15: println!, then main returns.
Println(c) ==
  /\ pc[c] = "println"
  /\ stdout' = [stdout EXCEPT ![c] =
        Append(stdout[c],
               [fmt |-> "Token Balance (using Rust): {}",
                arg |-> account_data[c][1].ui_amount_string])]
  /\ pc' = [pc EXCEPT ![c] = "returned"]
  /\ UNCHANGED << address, associated_token_account, connection, account_data,
                  panic, sent, net, ledger >>

\* The steps of run c itself.
Main(c) ==
  \/ Parse(c)
  \/ Connect(c)
  \/ Call(c)
  \/ Return(c)
  \/ TransportFailure(c)
  \/ Println(c)

Next ==
  \E c \in Calls :
    \/ Parse(c)
    \/ Connect(c)
    \/ Call(c)
    \/ Serve(c)
    \/ ServeMalformed(c)
    \/ Return(c)
    \/ TransportFailure(c)
    \/ Println(c)

Spec == Init /\ [][Next]_vars

\* A run that can take a step takes one; an awaited answer arrives or the
\* client's timeout fires.
FairSpec == Spec /\ \A c \in Calls : WF_vars(Main(c))

(***************************************************************************)
(* Vocabulary of the properties.                                           *)
(***************************************************************************)
\* Addresses that are not the base-58 text of a 32-byte identifier: a
\* character outside the alphabet, 9 bytes, 45 characters.
SyntacticallyInvalid == {TOKEN_ADDRESS, ShortAddress, LongAddress}

\* The error taxonomy, read off the error an unwrap panicked with.
FetchErrorOf(e) ==
  IF e.kind = "ParsePubkeyError" THEN "InvalidAddress"
  ELSE IF e.kind = "Transport" THEN "Transport"
  ELSE IF e.kind = "MalformedResponse" THEN "MalformedResponse"
  ELSE IF e.kind = "RpcResponseError"
          /\ e.message = "Invalid param: could not find account"
       THEN "NotFound"
  ELSE IF e.kind = "RpcResponseError"
          /\ e.message = "Invalid param: not a Token account"
       THEN "NotATokenAccount"
  ELSE "none"

FetchErrors ==
  {"InvalidAddress", "Transport", "MalformedResponse", "NotFound",
   "NotATokenAccount"}

\* The run came back to its caller with error kind k as a value.
ReturnedError(c, k) == pc[c] = "returned" /\ FetchErrorOf(panic[c]) = k

\* The run was terminated by a panic carrying error kind k.
Crashed(c, k) == pc[c] = "panicked" /\ FetchErrorOf(panic[c]) = k

Exited(c) == pc[c] \in {"returned", "panicked"}

\* Process status: main returning gives 0, a panic gives 101.
ExitCode(c) ==
  IF pc[c] = "returned" THEN 0 ELSE IF pc[c] = "panicked" THEN 101 ELSE -1

Succeeded(c) == account_data[c] # << >> /\ panic[c] = NoPanic

FetchState(c) ==
  IF panic[c] # NoPanic /\ account_data[c] # << >> THEN "Both"
  ELSE IF panic[c] # NoPanic THEN "Failed"
  ELSE IF account_data[c] # << >> THEN "Completed"
  ELSE IF sent[c] > 0 THEN "InFlight"
  ELSE "Idle"

RequestsOf(c) == {m \in net : m.conn = c /\ m.type = "request"}

ResponsesOf(c) == {m \in net : m.conn = c /\ m.type = "response"}

DigitValue(ch) == (CHOOSE i \in 1..Len(Digits) : Digits[i] = ch) - 1

IsDigit(ch) == \E i \in 1..Len(Digits) : Digits[i] = ch

RECURSIVE NatOf(_)
NatOf(s) ==
  IF Len(s) = 0 THEN 0
  ELSE NatOf(SubSeq(s, 1, Len(s) - 1)) * 10 + DigitValue(s[Len(s)])

RECURSIVE Pow10(_)
Pow10(k) == IF k = 0 THEN 1 ELSE 10 * Pow10(k - 1)

\* s is the decimal rendering of n / 10^d: digits with at most one point,
\* no leading zero but a lone "0", no trailing zero after the point, no
\* point without a fraction, and the same number.
Renders(s, n, d) ==
  LET dots == {i \in 1..Len(s) : s[i] = "."}
      k    == IF dots = {} THEN Len(s) + 1 ELSE CHOOSE i \in dots : TRUE
      int  == SubSeq(s, 1, k - 1)
      frac == SubSeq(s, k + 1, Len(s))
  IN  /\ Cardinality(dots) <= 1
      /\ \A i \in 1..Len(s) : i \notin dots => IsDigit(s[i])
      /\ Len(int) >= 1
      /\ Len(int) > 1 => int[1] # "0"
      /\ dots # {} => Len(frac) >= 1
      /\ Len(frac) >= 1 => frac[Len(frac)] # "0"
      /\ Len(frac) <= d
      /\ NatOf(int) * Pow10(d) + NatOf(frac) * Pow10(d - Len(frac)) = n

C4_UiAmountString ==
  \A c \in Calls :
    pc[c] = "returned"
      => /\ Len(stdout[c]) = 1
         /\ LET v == account_data[c][1]
                s == stdout[c][1].arg
                n == NatOf(v.amount)
            IN  /\ s = v.ui_amount_string
                /\ Renders(s, n, v.decimals)
                /\ (n = 1500000 /\ v.decimals = 6) => s = <<"1", ".", "5">>
                /\ (n = 0 /\ v.decimals = 0) => s = <<"0">>
                /\ (n = 100 /\ v.decimals = 2) => s = <<"1">>
                /\ (n = 1 /\ v.decimals = 9)
                     => s = <<"0", ".", "0", "0", "0", "0", "0", "0", "0",
                              "0", "1">>

C4_Witness ==
  \E c \in Calls :
    /\ pc[c] = "returned"
    /\ account_data[c][1].amount = <<"1", "5", "0", "0", "0", "0", "0">>
    /\ account_data[c][1].decimals = 6
    /\ stdout[c][1].arg = <<"1", ".", "5">>

C7_Attribution ==
  \A c \in Calls :
    address[c] \notin SyntacticallyInvalid
      => LET acct == ledger[ParseTable[address[c]].val]
         IN  /\ \A m \in RequestsOf(c) : m.param = address[c]
             /\ \A m \in ResponsesOf(c) :
                  m.body.kind # "garbage" => m.body = Answer(ledger, address[c])
             /\ account_data[c] # << >>
                  => /\ acct.kind = "token"
                     /\ account_data[c][1].ui_amount_string =
                          RealNumberStringTrimmed(acct.amount, acct.decimals)
             /\ Crashed(c, "NotFound") => acct.kind = "none"
             /\ Crashed(c, "NotATokenAccount") => acct.kind = "other"

C9_StateMachine ==
  /\ [][ \A c \in Calls :
           LET old == FetchState(c)
               new == FetchState(c)'
           IN  /\ old # "Both" /\ new # "Both"
               /\ old # new
                    => \/ old = "Idle" /\ new = "InFlight"
                          /\ associated_token_account[c] # << >>
                       \/ old = "Idle" /\ new = "Failed"
                          /\ address[c] \in SyntacticallyInvalid
                       \/ old = "InFlight" /\ new \in {"Completed", "Failed"}
       ]_vars
  /\ \A c \in Calls : <>(FetchState(c) \in {"Completed", "Failed"})

C9_Witness ==
  \E c, d \in Calls :
    /\ FetchState(c) = "Completed"
    /\ pc[c] = "returned"
    /\ FetchState(d) = "Failed"
    /\ sent[d] = 1

(***************************************************************************)
(* C10: with the address constant as written, "Token address", every run   *)
(* fails at line 6: it never builds the client, never issues the request   *)
(* and never prints a balance line.                                        *)
(***************************************************************************)
C10_PlaceholderFailsAtParse ==
  \A c \in Calls :
    address[c] = TOKEN_ADDRESS
      => /\ pc[c] \in {"parse", "panicked"}
         /\ pc[c] = "panicked"
              => panic[c] = [kind |-> "ParsePubkeyError", message |-> "Invalid"]
         /\ associated_token_account[c] = << >>
         /\ connection[c] = ""
         /\ sent[c] = 0
         /\ \A m \in net : m.conn # c
         /\ account_data[c] = << >>
         /\ stdout[c] = << >>

C10_Witness ==
  \E c \in Calls :
    /\ address[c] = TOKEN_ADDRESS
    /\ pc[c] = "panicked"
    /\ panic[c].message = "Invalid"

====
